---- MODULE Spec2Model ----
(***************************************************************************)
(* Model of the notify_server of rcrwhyg/chat: the notification pump       *)
(* (setup_pg_listener), the decoder (Notification::load), the recipient    *)
(* resolver (get_affected_chat_user_ids) and the user registry             *)
(* (UserMap = DashMap<u64, broadcast::Sender<Arc<AppEvent>>>).              *)
(***************************************************************************)
EXTENDS Integers, Sequences, FiniteSets, TLC

(* ------------------------------ bounds --------------------------------- *)
\* member ids and list lengths of the payloads given to Notification::load
MaxUserId == 3
MaxMembers == 3
\* the same for the notifications the pump is fed, and the pump's run length
PumpMaxUserId == 2
PumpMaxMembers == 1
MaxNotifs == 2
\* connections opened during a run, and capacity of a broadcast channel
MaxConn == 2
ChannelCapacity == 2
\* the run of message notifications that fills a channel past its capacity
FanMaxMembers == 2
FanMaxNotifs == 3

(* ------------------------------ values --------------------------------- *)
\* width of the model's u64: `v as u64` is v modulo 2^64; ids here stay far
\* below that, the modulus is scaled to the model's integers
U64Modulus == 2^16

None == [some |-> FALSE]
Some(v) == [some |-> TRUE, val |-> v]

RECURSIVE SeqsUpTo(_, _)
SeqsUpTo(S, n) ==
    IF n = 0 THEN {<<>>}
    ELSE LET shorter == SeqsUpTo(S, n - 1)
         IN shorter \cup {Append(s, x) : s \in {t \in shorter : Len(t) = n - 1}, x \in S}

Range(s) == {s[i] : i \in 1..Len(s)}

\* chat_core::Chat: the member list (Vec<i64>), which the notify server
\* reads, and the name and the type, which it passes on
ChatNames == {"test"}
NotifChatTypes == {"PrivateChannel"}
Chats(lists) == [members : lists, name : ChatNames, type : NotifChatTypes]

\* chat_core::Message: content, files and sender
Contents == {"hello", "bye"}
FileLists == {<<"/files/1/a.png">>}
Messages == [content : Contents, files : FileLists, sender_id : {1}]

Ops == {"INSERT", "UPDATE", "DELETE", "TRUNCATE"}
Channels == {"chat_updated", "chat_message_created", "chat_deleted"}

\* the JSON texts a payload can be, by the shape serde reads them as:
\* a ChatUpdated object, a ChatMessageCreated object, or text that is neither
Payloads(lists) ==
    [shape : {"ChatUpdated"}, op : Ops,
     old : {None} \cup {Some(c) : c \in Chats(lists)},
     new : {None} \cup {Some(c) : c \in Chats(lists)}]
    \cup [shape : {"ChatMessageCreated"}, message : Messages, members : lists]
    \cup {[shape |-> "Malformed"]}

\* sqlx PgNotification: channel() and payload()
Notifs(lists) == [channel : Channels, payload : Payloads(lists)]

LoadNotifs == Notifs(SeqsUpTo(1..MaxUserId, MaxMembers))
PumpNotifs == Notifs(SeqsUpTo(1..PumpMaxUserId, PumpMaxMembers))

\* message notifications only, and one payload that does not parse
FanNotifs ==
    [channel : {"chat_message_created"},
     payload : [shape : {"ChatMessageCreated"},
                message : [content : {"hello"}, files : FileLists, sender_id : {1}],
                members : SeqsUpTo(1..PumpMaxUserId, FanMaxMembers)]
               \cup {[shape |-> "Malformed"]}]

NoNotif == [channel |-> "none"]
NotLoaded == [tag |-> "NotLoaded"]

(* --------------------------- the decoder ------------------------------- *)
\* `*v as u64`
AsU64(v) == v % U64Modulus

\* i64::MAX at the width of the model, and `v as i64` for a u64 v
I64Max == (U64Modulus \div 2) - 1
AsI64(v) == IF v > I64Max THEN v - U64Modulus ELSE v

\* HashSet<u64> of a member list: old.members.iter().map(|v| *v as u64).collect()
MemberSet(chat) == {AsU64(chat.members[i]) : i \in 1..Len(chat.members)}

\* faulty variants of get_affected_chat_user_ids: the new members only; the
\* union even when the member sets are equal; nobody for a single snapshot
get_affected_chat_user_ids_NewOnly(old, new) ==
    IF new.some THEN MemberSet(new.val) ELSE {}

get_affected_chat_user_ids_NoSuppress(old, new) ==
    (IF old.some THEN MemberSet(old.val) ELSE {})
        \cup (IF new.some THEN MemberSet(new.val) ELSE {})

get_affected_chat_user_ids_SwapSingle(old, new) ==
    CASE old.some /\ new.some ->
            IF MemberSet(old.val) = MemberSet(new.val) THEN {}
            ELSE MemberSet(old.val) \cup MemberSet(new.val)
      [] old.some /\ ~new.some -> {}
      [] ~old.some /\ new.some -> {}
      [] OTHER -> {}

\* get_affected_chat_user_ids(old, new)
get_affected_chat_user_ids(old, new) ==
    CASE old.some /\ new.some ->
            LET old_members == MemberSet(old.val)
                new_members == MemberSet(new.val)
            IN IF old_members = new_members THEN {}
               ELSE old_members \cup new_members
      [] old.some /\ ~new.some -> MemberSet(old.val)
      [] ~old.some /\ new.some -> MemberSet(new.val)
      [] OTHER -> {}

Ok(user_ids, event) == [tag |-> "Ok", user_ids |-> user_ids, event |-> event]
Err(msg) == [tag |-> "Err", msg |-> msg]
\* Option::expect on None: the task panics
Panic(msg) == [tag |-> "Panic", msg |-> msg]

\* faulty variant: only the first member
MessageRecipients_First(members) ==
    IF Len(members) = 0 THEN {} ELSE {members[1]}

\* faulty variant: an id listed more than once is dropped altogether
MessageRecipients_DropRepeated(members) ==
    {members[i] : i \in {k \in 1..Len(members) :
                            \A j \in 1..Len(members) : members[j] = members[k] => j = k}}

\* payload.members.iter().copied().collect()
MessageRecipients(members) == Range(members)

\* the "chat_updated" arm of the match in Notification::load
load_chat_updated(payload) ==
    IF payload.shape # "ChatUpdated" THEN Err("serde_json")
    ELSE LET user_ids == get_affected_chat_user_ids(payload.old, payload.new)
         IN CASE payload.op = "INSERT" ->
                    IF payload.new.some
                    THEN Ok(user_ids, [type |-> "NewChat", chat |-> payload.new.val])
                    ELSE Panic("new should be present")
              [] payload.op = "UPDATE" ->
                    IF payload.old.some
                    THEN Ok(user_ids, [type |-> "AddToChat", chat |-> payload.old.val])
                    ELSE Panic("new should be present")
              [] payload.op = "DELETE" ->
                    IF payload.old.some
                    THEN Ok(user_ids, [type |-> "RemoveFromChat", chat |-> payload.old.val])
                    ELSE Panic("old should be present")
              [] OTHER -> Err("Invalid operation")

\* faulty variant: the event carries the message without its files
load_chat_message_created_NoFiles(payload) ==
    IF payload.shape # "ChatMessageCreated" THEN Err("serde_json")
    ELSE Ok(MessageRecipients(payload.members),
            [type |-> "NewMessage", message |-> [payload.message EXCEPT !.files = <<>>]])

\* the "chat_message_created" arm
load_chat_message_created(payload) ==
    IF payload.shape # "ChatMessageCreated" THEN Err("serde_json")
    ELSE Ok(MessageRecipients(payload.members),
            [type |-> "NewMessage", message |-> payload.message])

\* faulty variant: whatever is not chat_updated is decoded as a message
load_NoChannelCheck(type, payload) ==
    IF type = "chat_updated" THEN load_chat_updated(payload)
    ELSE load_chat_message_created(payload)

\* Notification::load(type, payload)
load(type, payload) ==
    CASE type = "chat_updated" -> load_chat_updated(payload)
      [] type = "chat_message_created" -> load_chat_message_created(payload)
      [] OTHER -> Err("Invalid notification type")

(* ------------------------------ state ---------------------------------- *)
VARIABLES
    pumpSt,     \* where setup_pg_listener and its spawned task are
    pumpExit,   \* how the spawned task ended
    listener,   \* the PgListener: connected or not, its channels, its error
    notif,      \* the notification the loop is handling
    loaded,     \* what Notification::load returned for it
    todo,       \* recipients the for loop has not visited yet
    nsent,      \* notifications taken from the stream so far
    users,      \* state.users: user id -> sender (0: no entry)
    nextChan,   \* identity of the next broadcast channel created
    conn,       \* the streaming connections and their receivers
    wire,       \* what each connection has written to its client
    published,  \* per user, the events the pump sent on the user's entry
    db,         \* chat_server: the tables of the database and the stored files
    call        \* chat_server: the request being served and its outcome

vars == <<pumpSt, pumpExit, listener, notif, loaded, todo, nsent, users, nextChan,
          conn, wire, published, db, call>>

\* the state of the chat server: it is a process of its own, the notify
\* server never touches it
serverVars == <<db, call>>
notifyVars == <<pumpSt, pumpExit, listener, notif, loaded, todo, nsent, users,
                nextChan, conn, wire, published>>

\* the database before any request, and no request being served
EmptyDb == [users |-> <<>>, workspaces |-> <<>>, chats |-> <<>>, messages |-> <<>>,
            files |-> {}]
NoCall == [op |-> "none"]
InitServer == db = EmptyDb /\ call = NoCall

UserIds == 1..PumpMaxUserId
Conns == 1..MaxConn

\* what setup_pg_listener awaits, in order, and the channels it listens on
SetupSteps == <<"connect", "listen chat_updated", "listen chat_message_created">>
ListenChannels == <<"chat_updated", "chat_message_created">>

\* the listener after the first `done` awaits succeeded: the next one, if
\* there is one, failed
ListenerAfter(done) ==
    [connected |-> done >= 1,
     channels |-> {ListenChannels[i] : i \in 1..(done - 1)},
     error |-> IF done < Len(SetupSteps) THEN SetupSteps[done + 1] ELSE "none"]

\* before setup_pg_listener runs, and after all of it succeeded
NoListener == [connected |-> FALSE, channels |-> {}, error |-> "none"]
Listening == ListenerAfter(Len(SetupSteps))

\* a connection: its state, user, the channel its receiver is bound to and
\* the receiver's unread events; since and until record how many events the
\* user's entry had seen when it subscribed and when it closed, lost how many
\* it missed
IdleConn == [st |-> "idle", user |-> 0, chan |-> 0, buf |-> <<>>, since |-> 0,
             lost |-> 0, until |-> 0]

InitRegistry ==
    /\ users = [u \in UserIds |-> 0]
    /\ nextChan = 1
    /\ conn = [c \in Conns |-> IdleConn]
    /\ wire = [c \in Conns |-> <<>>]
    /\ published = [u \in UserIds |-> <<>>]

Init ==
    /\ pumpSt = "init"
    /\ pumpExit = [tag |-> "none"]
    /\ listener = NoListener
    /\ notif = NoNotif
    /\ loaded = NotLoaded
    /\ todo = {}
    /\ nsent = 0
    /\ InitRegistry
    /\ InitServer

(* ----------------------------- the registry ---------------------------- *)
\* faulty variant: a dropped receiver still counts as a receiver
Receivers_WithDropped(cs, ch) == {c \in Conns : cs[c].st # "idle" /\ cs[c].chan = ch}

\* receivers of a channel that are alive
Receivers(cs, ch) == {c \in Conns : cs[c].st = "open" /\ cs[c].chan = ch}

\* faulty variant: every subscribe inserts a fresh sender over the entry
RegistrySubscribe_Overwrite(reg, u, fresh) == [reg EXCEPT ![u] = fresh]

\* subscribe: the user's sender, created when the user has no entry
RegistrySubscribe(reg, u, fresh) ==
    IF reg[u] = 0 THEN [reg EXCEPT ![u] = fresh] ELSE reg

\* a receiver's queue after one more value: the channel keeps the last
\* ChannelCapacity values, a receiver behind by more loses the oldest
Enqueue(buf, e) ==
    IF Len(buf) < ChannelCapacity THEN Append(buf, e)
    ELSE Append(Tail(buf), e)

\* faulty variant: the value goes to one receiver only
BroadcastSend_OneReceiver(cs, ch, e) ==
    IF Receivers(cs, ch) = {} THEN cs
    ELSE LET r == CHOOSE c \in Receivers(cs, ch) : \A d \in Receivers(cs, ch) : c <= d
         IN [cs EXCEPT ![r].buf = Enqueue(@, e),
                       ![r].lost = @ + (IF Len(cs[r].buf) < ChannelCapacity THEN 0 ELSE 1)]

\* faulty variant: the value is queued before the older ones
BroadcastSend_Front(cs, ch, e) ==
    [c \in Conns |->
        IF c \in Receivers(cs, ch)
        THEN [cs[c] EXCEPT !.buf = IF Len(@) < ChannelCapacity THEN <<e>> \o @
                                   ELSE <<e>> \o SubSeq(@, 1, Len(@) - 1),
                           !.lost = @ + (IF Len(cs[c].buf) < ChannelCapacity THEN 0 ELSE 1)]
        ELSE cs[c]]

\* faulty variant: a dropped receiver on the channel makes the send give up
BroadcastSend_GivesUpOnDropped(cs, ch, e) ==
    IF \E c \in Conns : cs[c].st = "closed" /\ cs[c].chan = ch THEN cs
    ELSE [c \in Conns |->
            IF c \in Receivers(cs, ch)
            THEN [cs[c] EXCEPT !.buf = Enqueue(@, e),
                               !.lost = @ + (IF Len(cs[c].buf) < ChannelCapacity THEN 0 ELSE 1)]
            ELSE cs[c]]

\* broadcast::Sender::send: every live receiver of the channel gets the value
BroadcastSend(cs, ch, e) ==
    [c \in Conns |->
        IF c \in Receivers(cs, ch)
        THEN [cs[c] EXCEPT !.buf = Enqueue(@, e),
                           !.lost = @ + (IF Len(cs[c].buf) < ChannelCapacity THEN 0 ELSE 1)]
        ELSE cs[c]]

(* --------------------------- the connections --------------------------- *)
\* faulty variant: a new receiver starts with what another receiver of the
\* channel still has queued
Subscribe_Replay(c, u) ==
    /\ conn[c].st = "idle"
    /\ IF c = 1 THEN TRUE ELSE conn[c - 1].st # "idle"
    /\ users' = RegistrySubscribe(users, u, nextChan)
    /\ nextChan' = IF users'[u] = nextChan THEN nextChan + 1 ELSE nextChan
    /\ conn' = [conn EXCEPT ![c] = [st |-> "open", user |-> u, chan |-> users'[u],
                                    buf |-> IF Receivers(conn, users'[u]) = {} THEN <<>>
                                            ELSE conn[CHOOSE d \in Receivers(conn, users'[u]) : TRUE].buf,
                                    since |-> Len(published[u]),
                                    lost |-> 0, until |-> 0]]
    /\ UNCHANGED <<pumpSt, pumpExit, notif, loaded, todo, nsent, wire, published>>
    /\ UNCHANGED <<listener, serverVars>>

\* a client opens /events as user u: the handler subscribes
Subscribe(c, u) ==
    /\ conn[c].st = "idle"
    /\ IF c = 1 THEN TRUE ELSE conn[c - 1].st # "idle"
    /\ users' = RegistrySubscribe(users, u, nextChan)
    /\ nextChan' = IF users'[u] = nextChan THEN nextChan + 1 ELSE nextChan
    /\ conn' = [conn EXCEPT ![c] = [st |-> "open", user |-> u, chan |-> users'[u],
                                    buf |-> <<>>, since |-> Len(published[u]),
                                    lost |-> 0, until |-> 0]]
    /\ UNCHANGED <<pumpSt, pumpExit, notif, loaded, todo, nsent, wire, published>>
    /\ UNCHANGED <<listener, serverVars>>

\* the handler takes the next event of its receiver and writes it to the client
Recv(c) ==
    /\ conn[c].st = "open"
    /\ conn[c].buf # <<>>
    /\ wire' = [wire EXCEPT ![c] = Append(@, Head(conn[c].buf))]
    /\ conn' = [conn EXCEPT ![c].buf = Tail(@)]
    /\ UNCHANGED <<pumpSt, pumpExit, notif, loaded, todo, nsent, users, nextChan, published>>
    /\ UNCHANGED <<listener, serverVars>>

\* the client goes away: the handler ends and its receiver is dropped
Close(c) ==
    /\ conn[c].st = "open"
    /\ conn' = [conn EXCEPT ![c].st = "closed", ![c].buf = <<>>,
                             ![c].until = Len(published[conn[c].user])]
    /\ UNCHANGED <<pumpSt, pumpExit, notif, loaded, todo, nsent, users, nextChan,
                   wire, published>>
    /\ UNCHANGED <<listener, serverVars>>

(* ------------------------------ the pump ------------------------------- *)
\* faulty variant: the task is spawned as soon as the connection is there
SetupPgListener_SpawnsOnceConnected ==
    /\ pumpSt = "init"
    /\ \E done \in 0..Len(SetupSteps) :
          /\ listener' = ListenerAfter(done)
          /\ pumpSt' = IF done >= 1 THEN "listening" ELSE "setup_failed"
    /\ UNCHANGED <<pumpExit, notif, loaded, todo, nsent, users, nextChan, conn,
                   wire, published>>
    /\ UNCHANGED serverVars

\* PgListener::connect and the two listen calls, each left through `?` when
\* it fails, then tokio::spawn
SetupPgListener ==
    /\ pumpSt = "init"
    /\ \E done \in 0..Len(SetupSteps) :
          /\ listener' = ListenerAfter(done)
          /\ pumpSt' = IF done = Len(SetupSteps) THEN "listening" ELSE "setup_failed"
    /\ UNCHANGED <<pumpExit, notif, loaded, todo, nsent, users, nextChan, conn,
                   wire, published>>
    /\ UNCHANGED serverVars

\* how the task goes on after `Notification::load(..)?`: an Err leaves the
\* async block through `?`, a panic unwinds the task
AfterLoad(l) == IF l.tag = "Ok" THEN "publishing" ELSE "stopped"

\* faulty variant: the decoding looks at the registry and keeps only the
\* recipients that have an entry
Receive_PrunesUnregistered(n) ==
    /\ pumpSt = "listening"
    /\ nsent' = nsent + 1
    /\ LET l == load(n.channel, n.payload)
       IN /\ pumpSt' = AfterLoad(l)
          /\ IF pumpSt' = "stopped"
             THEN /\ pumpExit' = l
                  /\ notif' = NoNotif
                  /\ loaded' = NotLoaded
                  /\ todo' = {}
             ELSE /\ pumpExit' = pumpExit
                  /\ notif' = n
                  /\ loaded' = [l EXCEPT !.user_ids = {u \in @ : u \in UserIds /\ users[u] # 0}]
                  /\ todo' = loaded'.user_ids
    /\ UNCHANGED <<users, nextChan, conn, wire, published>>
    /\ UNCHANGED <<listener, serverVars>>

\* faulty variant: when load fails the loop publishes a stand-in event to
\* every user
Receive_FallbackEvent(n) ==
    /\ pumpSt = "listening"
    /\ nsent' = nsent + 1
    /\ LET l == load(n.channel, n.payload)
       IN /\ pumpSt' = "publishing"
          /\ pumpExit' = pumpExit
          /\ notif' = n
          /\ loaded' = IF l.tag = "Ok" THEN l ELSE Ok(UserIds, [type |-> "Unknown"])
          /\ todo' = loaded'.user_ids
    /\ UNCHANGED <<users, nextChan, conn, wire, published>>
    /\ UNCHANGED <<listener, serverVars>>

\* stream.next() yields Some(Ok(notif)); the loop body decodes it. When load
\* fails the task is over: its locals are dropped and the error (or the
\* panic) is the task's output
Receive(n) ==
    /\ pumpSt = "listening"
    /\ nsent' = nsent + 1
    /\ LET l == load(n.channel, n.payload)
       IN /\ pumpSt' = AfterLoad(l)
          /\ IF pumpSt' = "stopped"
             THEN /\ pumpExit' = l
                  /\ notif' = NoNotif
                  /\ loaded' = NotLoaded
                  /\ todo' = {}
             ELSE /\ pumpExit' = pumpExit
                  /\ notif' = n
                  /\ loaded' = l
                  /\ todo' = IF l.tag = "Ok" THEN l.user_ids ELSE {}
    /\ UNCHANGED <<users, nextChan, conn, wire, published>>
    /\ UNCHANGED <<listener, serverVars>>

\* stream.next() yields None or Some(Err(_)): the while let ends, the task
\* returns Ok(())
StreamEnds ==
    /\ pumpSt = "listening"
    /\ pumpSt' = "stopped"
    /\ pumpExit' = [tag |-> "Ok"]
    /\ UNCHANGED <<notif, loaded, todo, nsent, users, nextChan, conn, wire, published>>
    /\ UNCHANGED <<listener, serverVars>>

\* what setup_pg_listener returns to its caller: the error of connect or
\* listen (`?`), else Ok(()) as soon as the task is spawned; the JoinHandle
\* of the task is dropped, so the task's output reaches nobody
SetupResult ==
    CASE pumpSt = "init" -> [tag |-> "none"]
      [] pumpSt = "setup_failed" -> Err(listener.error)
      [] OTHER -> [tag |-> "Ok"]

\* faulty variant: the payload is decoded anew for every recipient, each
\* of whom gets an Arc of their own
CurrentEvent_Redecoded ==
    [arc |-> nsent + Cardinality(todo) - 1,
     ev |-> load(notif.channel, notif.payload).event]

\* Arc<AppEvent> of the notification being handled
CurrentEvent == [arc |-> nsent, ev |-> loaded.event]

\* faulty variant: a send that waits until every receiver has room
SendReady_WaitsForRoom(cs, ch) ==
    \A c \in Receivers(cs, ch) : Len(cs[c].buf) < ChannelCapacity

\* broadcast::Sender::send is not async: it takes no await and waits for no
\* receiver, however full the receivers' queues are
SendReady(cs, ch) == TRUE

\* its result: Err(SendError) when the channel has no live receiver
SendResult(cs, ch) == IF Receivers(cs, ch) = {} THEN "Err" ELSE "Ok"

\* faulty variant: the send error ends the task, as `tx.send(..)?` would
AfterSend_Propagate(r) == IF r = "Err" THEN "stopped" ELSE "publishing"

\* `if let Err(e) = tx.send(..) { warn!(..) }`: the loop goes on either way
AfterSend(r) == "publishing"

\* faulty variant: the event goes to the first entry of the registry,
\* whoever the recipient is
PublishOne_FirstEntry(u) ==
    /\ pumpSt = "publishing"
    /\ u \in todo
    /\ todo' = todo \ {u}
    /\ IF \E v \in UserIds : users[v] # 0
       THEN LET v == CHOOSE w \in UserIds : users[w] # 0 /\ \A x \in UserIds : users[x] # 0 => w <= x
            IN /\ conn' = BroadcastSend(conn, users[v], CurrentEvent)
               /\ published' = [published EXCEPT ![v] = Append(@, nsent)]
               /\ pumpSt' = AfterSend(SendResult(conn, users[v]))
               /\ pumpExit' = pumpExit
       ELSE UNCHANGED <<conn, published, pumpSt, pumpExit>>
    /\ UNCHANGED <<notif, loaded, nsent, users, nextChan, wire>>
    /\ UNCHANGED <<listener, serverVars>>

\* faulty variant: a failed send breaks out of the for loop
PublishOne_BreaksOnError(u) ==
    /\ pumpSt = "publishing"
    /\ u \in todo
    /\ IF u \in UserIds /\ users[u] # 0
       THEN /\ conn' = BroadcastSend(conn, users[u], CurrentEvent)
            /\ published' = [published EXCEPT ![u] = Append(@, nsent)]
            /\ todo' = IF SendResult(conn, users[u]) = "Err" THEN {} ELSE todo \ {u}
            /\ UNCHANGED <<pumpSt, pumpExit>>
       ELSE /\ todo' = todo \ {u}
            /\ UNCHANGED <<conn, published, pumpSt, pumpExit>>
    /\ UNCHANGED <<notif, loaded, nsent, users, nextChan, wire>>
    /\ UNCHANGED <<listener, serverVars>>

\* one turn of `for user_id in notification.user_ids`
PublishOne(u) ==
    /\ pumpSt = "publishing"
    /\ u \in todo
    /\ todo' = todo \ {u}
    /\ IF u \in UserIds /\ users[u] # 0
       THEN /\ SendReady(conn, users[u])
            /\ conn' = BroadcastSend(conn, users[u], CurrentEvent)
            /\ published' = [published EXCEPT ![u] = Append(@, nsent)]
            /\ pumpSt' = AfterSend(SendResult(conn, users[u]))
            /\ pumpExit' = IF pumpSt' = "stopped" THEN Err("send") ELSE pumpExit
       ELSE UNCHANGED <<conn, published, pumpSt, pumpExit>>
    /\ UNCHANGED <<notif, loaded, nsent, users, nextChan, wire>>
    /\ UNCHANGED <<listener, serverVars>>

\* the for loop is done: back to stream.next().await
EndIteration ==
    /\ pumpSt = "publishing"
    /\ todo = {}
    /\ pumpSt' = "listening"
    /\ notif' = NoNotif
    /\ loaded' = NotLoaded
    /\ UNCHANGED <<pumpExit, todo, nsent, users, nextChan, conn, wire, published>>
    /\ UNCHANGED <<listener, serverVars>>

Next ==
    \/ SetupPgListener
    \/ pumpSt = "listening" /\ nsent < MaxNotifs /\ \E n \in PumpNotifs : Receive(n)
    \/ StreamEnds
    \/ \E u \in todo : PublishOne(u)
    \/ EndIteration
    \/ \E c \in Conns, u \in UserIds : Subscribe(c, u)
    \/ \E c \in Conns : Recv(c)
    \/ \E c \in Conns : Close(c)

Spec == Init /\ [][Next]_vars

(* ------------------- the decoder on its own ---------------------------- *)
InitLoad ==
    /\ pumpSt = "init"
    /\ pumpExit = [tag |-> "none"]
    /\ listener = NoListener
    /\ notif \in LoadNotifs
    /\ loaded = NotLoaded
    /\ todo = {}
    /\ nsent = 0
    /\ InitRegistry
    /\ InitServer

LoadStep ==
    /\ loaded = NotLoaded
    /\ loaded' = load(notif.channel, notif.payload)
    /\ UNCHANGED <<pumpSt, pumpExit, notif, todo, nsent, users, nextChan, conn,
                   wire, published>>
    /\ UNCHANGED <<listener, serverVars>>

SpecLoad == InitLoad /\ [][LoadStep]_vars

(* ------------- one notification through a listening pump -------------- *)
\* the state after setup_pg_listener succeeded and every user the registry
\* can hold opened one connection; the pump then takes one notification of
\* the larger payload set
InitOne ==
    /\ pumpSt = "listening"
    /\ pumpExit = [tag |-> "none"]
    /\ listener = Listening
    /\ notif = NoNotif
    /\ loaded = NotLoaded
    /\ todo = {}
    /\ nsent = 0
    /\ users = [u \in UserIds |-> IF u \in Conns THEN u ELSE 0]
    /\ nextChan = PumpMaxUserId + 1
    /\ conn = [c \in Conns |->
                 IF c \in UserIds
                 THEN [IdleConn EXCEPT !.st = "open", !.user = c, !.chan = c]
                 ELSE IdleConn]
    /\ wire = [c \in Conns |-> <<>>]
    /\ published = [u \in UserIds |-> <<>>]
    /\ InitServer

NextOne ==
    \/ pumpSt = "listening" /\ nsent < 1 /\ \E n \in LoadNotifs : Receive(n)
    \/ \E u \in todo : PublishOne(u)
    \/ EndIteration

SpecOne == InitOne /\ [][NextOne]_vars

(* ---------- a chat is created, then a message is posted to it --------- *)
\* what the database sends when a chat is inserted and when a message is
\* inserted
ScenarioLists == SeqsUpTo(1..PumpMaxUserId, FanMaxMembers)
NewChatNotifs ==
    [channel : {"chat_updated"},
     payload : [shape : {"ChatUpdated"}, op : {"INSERT"}, old : {None},
                new : {Some(c) : c \in Chats(ScenarioLists)}]]
NewMessageNotifs ==
    [channel : {"chat_message_created"},
     payload : [shape : {"ChatMessageCreated"}, message : Messages,
                members : ScenarioLists]]

\* the clients are streaming; the pump takes the notification of the new
\* chat, then the one of the new message
NextChatTest ==
    \/ pumpSt = "listening" /\ nsent = 0 /\ \E n \in NewChatNotifs : Receive(n)
    \/ pumpSt = "listening" /\ nsent = 1 /\ \E n \in NewMessageNotifs : Receive(n)
    \/ \E u \in todo : PublishOne(u)
    \/ EndIteration
    \/ \E c \in Conns : Recv(c)

SpecChatTest == InitOne /\ [][NextChatTest]_vars

(* ------------- a longer run of message notifications ------------------- *)
NextFan ==
    \/ SetupPgListener
    \/ pumpSt = "listening" /\ nsent < FanMaxNotifs /\ \E n \in FanNotifs : Receive(n)
    \/ StreamEnds
    \/ \E u \in todo : PublishOne(u)
    \/ EndIteration
    \/ \E c \in Conns, u \in UserIds : Subscribe(c, u)
    \/ \E c \in Conns : Recv(c)
    \/ \E c \in Conns : Close(c)

SpecFan == Init /\ [][NextFan]_vars

(* ======================================================================= *)
(* chat_server                                                             *)
(* ======================================================================= *)
\* the notify server before setup_pg_listener, untouched by the chat server
NotifyIdle ==
    /\ pumpSt = "init"
    /\ pumpExit = [tag |-> "none"]
    /\ listener = NoListener
    /\ notif = NoNotif
    /\ loaded = NotLoaded
    /\ todo = {}
    /\ nsent = 0
    /\ InitRegistry

(* -------------------------- verify_token ------------------------------- *)
JWT_ISSUER == "chat_server"
JWT_AUDIENCE == "chat_web"

\* what a bearer token can be: a token signed over a user by the server's
\* key or by another one, for some issuer and audience, expired or not, or
\* text that is no token
Tokens ==
    [kind : {"jwt"}, user : 1..MaxUserId, key : {"server", "other"},
     iss : {JWT_ISSUER, "other"}, aud : {JWT_AUDIENCE, "other"}, expired : BOOLEAN]
    \cup {[kind |-> "text"]}

\* the Authorization header of a request: absent, of another scheme, a
\* bearer scheme without token, or a bearer token
AuthHeaders ==
    {[scheme |-> "none"], [scheme |-> "Basic"], [scheme |-> "BearerEmpty"]}
    \cup [scheme : {"Bearer"}, token : Tokens]

\* TypedHeader::<Authorization<Bearer>>::from_request_parts succeeds
BearerParses(h) == h.scheme = "Bearer"

\* faulty variant: the audience is not checked
DecodingKey_verify_AnyAudience(token) ==
    IF /\ token.kind = "jwt"
       /\ token.key = "server"
       /\ token.iss = JWT_ISSUER
       /\ ~token.expired
    THEN [tag |-> "Ok", user |-> token.user]
    ELSE Err("jwt_simple")

\* DecodingKey::verify: the signature, the issuer, the audience and the
\* expiry are checked; the custom claims are the user
DecodingKey_verify(token) ==
    IF /\ token.kind = "jwt"
       /\ token.key = "server"
       /\ token.iss = JWT_ISSUER
       /\ token.aud = JWT_AUDIENCE
       /\ ~token.expired
    THEN [tag |-> "Ok", user |-> token.user]
    ELSE Err("jwt_simple")

\* the inner handler run on a request: it sees the request's extensions
InnerHandler(ext) == [status |-> 200, ran |-> TRUE, ext |-> ext]

\* verify_token(state, req, next)
verify_token(req) ==
    IF BearerParses(req.authorization)
    THEN LET v == DecodingKey_verify(req.authorization.token)
         IN IF v.tag = "Ok"
            THEN InnerHandler(req.ext \cup {v.user})
            ELSE [status |-> 403, ran |-> FALSE, ext |-> {}]
    ELSE [status |-> 401, ran |-> FALSE, ext |-> {}]

Requests == [authorization : AuthHeaders, ext : {{}}]

InitAuth ==
    /\ NotifyIdle
    /\ db = EmptyDb
    /\ call \in [op : {"verify_token"}, req : Requests, pc : {"start"}]

\* the middleware serves the request
VerifyTokenStep ==
    /\ call.op = "verify_token" /\ call.pc = "start"
    /\ call' = [op |-> "verify_token", req |-> call.req, pc |-> "done",
                resp |-> verify_token(call.req)]
    /\ UNCHANGED <<db, notifyVars>>

SpecAuth == InitAuth /\ [][VerifyTokenStep]_vars

(* --------------------------- create_chat ------------------------------- *)
ServerUsers == 9
MaxChats == 2
MaxUnnamedMembers == 8

\* <<1, .., k>>
UpTo(k) == [i \in 1..k |-> i]

\* the users table with users 1..n, all of workspace 1
UsersTable(n) ==
    [i \in 1..n |-> [id |-> i, ws_id |-> 1, email |-> <<"user", i>>,
                     full_name |-> "user"]]

\* CreateChat: the member lists are 1..k, up to one user that does not
\* exist, and two lists that name a user twice
MemberLists == {UpTo(k) : k \in 0..(ServerUsers + 1)} \cup {<<1, 1>>, <<1, 2, 1>>}
CreateChatInputs ==
    [name : {None, Some("general")}, members : MemberLists, public : BOOLEAN]

\* SELECT .. FROM users WHERE id = ANY($1)
fetch_chat_users_by_ids(d, ids) ==
    {i \in 1..Len(d.users) : d.users[i].id \in Range(ids)}

\* faulty variant: a named chat is private whatever `public` says
ChatTypeOf_IgnoresPublic(name, len, public) ==
    IF ~name.some THEN (IF len = 2 THEN "Single" ELSE "Group")
    ELSE "PrivateChannel"

\* `match (&input.name, len)` in create_chat
ChatTypeOf(name, len, public) ==
    IF ~name.some THEN (IF len = 2 THEN "Single" ELSE "Group")
    ELSE IF public THEN "PublicChannel" ELSE "PrivateChannel"

\* AppState::create_chat(input, ws_id): its result and the database after it
create_chat(d, input, ws_id) ==
    LET len == Len(input.members) IN
    IF len < 2
    THEN [out |-> Err("Members must be at least 2"), db |-> d]
    ELSE IF len > MaxUnnamedMembers /\ ~input.name.some
    THEN [out |-> Err("Group chat with more than 8 members must have a name"), db |-> d]
    ELSE IF Cardinality(fetch_chat_users_by_ids(d, input.members)) # len
    THEN [out |-> Err("Some of the members do not exist"), db |-> d]
    ELSE LET chat == [id |-> Len(d.chats) + 1, ws_id |-> ws_id, name |-> input.name,
                      type |-> ChatTypeOf(input.name, len, input.public),
                      members |-> input.members]
         IN [out |-> [tag |-> "Ok", chat |-> chat],
             db |-> [d EXCEPT !.chats = Append(@, chat)]]

InitChat ==
    /\ NotifyIdle
    /\ db = [EmptyDb EXCEPT !.users = UsersTable(ServerUsers)]
    /\ call = NoCall

CreateChat(input, ws_id) ==
    /\ Len(db.chats) < MaxChats
    /\ LET r == create_chat(db, input, ws_id)
       IN /\ db' = r.db
          /\ call' = [op |-> "create_chat", input |-> input, ws_id |-> ws_id,
                      out |-> r.out]
    /\ UNCHANGED notifyVars

NextChat == \E input \in CreateChatInputs : CreateChat(input, 1)

SpecChat == InitChat /\ [][NextChat]_vars

(* ------------------------ update_chat_by_id ---------------------------- *)
\* the types an update asks for here
UpdateTypes == {"Single", "Group", "PublicChannel"}

\* member lists of 1, 2, 3, ServerUsers and ServerUsers + 1 users (the last
\* names a user that does not exist), and a list that names a user twice
ChatsMemberLists ==
    {UpTo(1), UpTo(2), UpTo(3), UpTo(ServerUsers), UpTo(ServerUsers + 1), <<1, 1>>}
ChatsCreateInputs == [name : {None, Some("general")}, members : ChatsMemberLists,
                      public : {TRUE}]
UpdateChatInputs == [type : UpdateTypes, name : {None, Some("general")},
                     members : ChatsMemberLists]

\* faulty variant: the type is not compared with the number of members
update_chat_by_id_AnySingle(d, id, input) ==
    LET len == Len(input.members) IN
    IF len < 2
    THEN [out |-> Err("Members must be at least 2"), db |-> d]
    ELSE IF len > MaxUnnamedMembers /\ ~input.name.some
    THEN [out |-> Err("Group chat with more than 8 members must have a name"), db |-> d]
    ELSE IF Cardinality(fetch_chat_users_by_ids(d, input.members)) # len
    THEN [out |-> Err("Some of the members do not exist"), db |-> d]
    ELSE IF AsI64(id) \notin 1..Len(d.chats)
    THEN [out |-> Err("RowNotFound"), db |-> d]
    ELSE LET chat == [d.chats[AsI64(id)] EXCEPT !.type = input.type, !.name = input.name,
                                                !.members = input.members]
         IN [out |-> [tag |-> "Ok", chat |-> chat],
             db |-> [d EXCEPT !.chats[AsI64(id)] = chat]]

\* AppState::update_chat_by_id(id, input): its result and the database
\* after it; the UPDATE of a row that does not exist is RowNotFound
update_chat_by_id(d, id, input) ==
    LET len == Len(input.members) IN
    IF len < 2
    THEN [out |-> Err("Members must be at least 2"), db |-> d]
    ELSE IF len > MaxUnnamedMembers /\ ~input.name.some
    THEN [out |-> Err("Group chat with more than 8 members must have a name"), db |-> d]
    ELSE IF input.type = "Single" /\ len # 2
    THEN [out |-> Err("Chat type cannot be changed for [single]"), db |-> d]
    ELSE IF Cardinality(fetch_chat_users_by_ids(d, input.members)) # len
    THEN [out |-> Err("Some of the members do not exist"), db |-> d]
    ELSE IF AsI64(id) \notin 1..Len(d.chats)
    THEN [out |-> Err("RowNotFound"), db |-> d]
    ELSE LET chat == [d.chats[AsI64(id)] EXCEPT !.type = input.type, !.name = input.name,
                                                !.members = input.members]
         IN [out |-> [tag |-> "Ok", chat |-> chat],
             db |-> [d EXCEPT !.chats[AsI64(id)] = chat]]

UpdateChat(id, input) ==
    /\ LET r == update_chat_by_id(db, id, input)
       IN /\ db' = r.db
          /\ call' = [op |-> "update_chat_by_id", id |-> id, input |-> input,
                      out |-> r.out]
    /\ UNCHANGED notifyVars

\* the ids of the chats there can be; a chat not created yet is not found
ChatIds == 1..MaxChats

NextChats ==
    \/ \E input \in ChatsCreateInputs : CreateChat(input, 1)
    \/ \E id \in ChatIds, input \in UpdateChatInputs : UpdateChat(id, input)

SpecChats == InitChat /\ [][NextChats]_vars

(* --------------------- create_message, list_messages ------------------- *)
MaxMessages == 3
MsgChats == 2

\* the strings a file of a message can be: the url of a file that was
\* uploaded, the url of one that was not, and text that is no file url
UploadedFile == "/files/1/a.png"
MissingFile == "/files/1/b.png"
InvalidFile == "invalid_file"
FileStrings == {UploadedFile, MissingFile, InvalidFile}

\* ChatFile::from_str(s): text that is no file url is an error
ChatFile_from_str(f) == IF f = InvalidFile THEN Err("ChatFile") ELSE [tag |-> "Ok", file |-> f]

\* file.path(base_dir).exists()
FileExists(d, f) == f \in d.files

CreateMessageInputs ==
    [content : {"", "Hello World"},
     files : {<<>>, <<UploadedFile>>, <<MissingFile>>, <<InvalidFile>>,
              <<UploadedFile, MissingFile>>, <<UploadedFile, UploadedFile>>}]

\* the files the `for s in &input.files` loop accepts, in order, up to the
\* first one it rejects
RECURSIVE FilesOk(_, _)
FilesOk(d, files) ==
    IF files = <<>> THEN TRUE
    ELSE /\ ChatFile_from_str(Head(files)).tag = "Ok"
         /\ FileExists(d, Head(files))
         /\ FilesOk(d, Tail(files))

\* faulty variant: only the first file is looked at
create_message_FirstFileOnly(d, input, chat_id, user_id) ==
    IF input.content = ""
    THEN [out |-> Err("Content cannot be empty"), db |-> d]
    ELSE IF input.files # <<>> /\ ~FilesOk(d, <<Head(input.files)>>)
    THEN [out |-> Err("File not found"), db |-> d]
    ELSE LET message == [id |-> Len(d.messages) + 1, chat_id |-> AsI64(chat_id),
                         sender_id |-> AsI64(user_id), content |-> input.content,
                         files |-> input.files]
         IN [out |-> [tag |-> "Ok", message |-> message],
             db |-> [d EXCEPT !.messages = Append(@, message)]]

\* AppState::create_message(input, chat_id, user_id)
create_message(d, input, chat_id, user_id) ==
    IF input.content = ""
    THEN [out |-> Err("Content cannot be empty"), db |-> d]
    ELSE IF ~FilesOk(d, input.files)
    THEN [out |-> Err("File not found"), db |-> d]
    ELSE LET message == [id |-> Len(d.messages) + 1, chat_id |-> AsI64(chat_id),
                         sender_id |-> AsI64(user_id), content |-> input.content,
                         files |-> input.files]
         IN [out |-> [tag |-> "Ok", message |-> message],
             db |-> [d EXCEPT !.messages = Append(@, message)]]

\* ListMessages: last_id is Option<u64>, limit is u64
ListMessagesInputs ==
    [last_id : {None} \cup {Some(v) : v \in (0..(MaxMessages + 1))
                                          \cup {I64Max, I64Max + 1, U64Modulus - 1}},
     limit : (0..MaxMessages) \cup {I64Max + 1}]

\* ORDER BY id DESC over a set of ids
RECURSIVE OrderDesc(_)
OrderDesc(ids) ==
    IF ids = {} THEN <<>>
    ELSE LET top == CHOOSE i \in ids : \A j \in ids : j <= i
         IN <<top>> \o OrderDesc(ids \ {top})

\* LIMIT n
Limit(seq, n) == SubSeq(seq, 1, IF Len(seq) < n THEN Len(seq) ELSE n)

\* AppState::list_messages(input, chat_id): the query binds last_id as i64
\* and limit as i64; the database refuses a negative LIMIT
list_messages(d, input, chat_id) ==
    LET last_id == IF input.last_id.some THEN input.last_id.val ELSE I64Max
        ids == {i \in 1..Len(d.messages) :
                   /\ d.messages[i].chat_id = AsI64(chat_id)
                   /\ d.messages[i].id < AsI64(last_id)}
    IN IF AsI64(input.limit) < 0 THEN Err("sqlx")
       ELSE [tag |-> "Ok",
             messages |-> [k \in 1..Len(Limit(OrderDesc(ids), AsI64(input.limit))) |->
                              d.messages[Limit(OrderDesc(ids), AsI64(input.limit))[k]]]]

InitMsg ==
    /\ NotifyIdle
    /\ db = [EmptyDb EXCEPT !.users = UsersTable(2), !.files = {UploadedFile}]
    /\ call = NoCall

CreateMessage(input, chat_id, user_id) ==
    /\ Len(db.messages) < MaxMessages
    /\ LET r == create_message(db, input, chat_id, user_id)
       IN /\ db' = r.db
          /\ call' = [op |-> "create_message", input |-> input, chat_id |-> chat_id,
                      out |-> r.out]
    /\ UNCHANGED notifyVars

ListMessages(input, chat_id) ==
    /\ call' = [op |-> "list_messages", input |-> input, chat_id |-> chat_id,
                out |-> list_messages(db, input, chat_id)]
    /\ UNCHANGED <<db, notifyVars>>

NextMsg ==
    \/ \E input \in CreateMessageInputs, chat_id \in 1..MsgChats :
          CreateMessage(input, chat_id, 1)
    \/ \E input \in ListMessagesInputs, chat_id \in 1..MsgChats :
          ListMessages(input, chat_id)

SpecMsg == InitMsg /\ [][NextMsg]_vars

(* ------------------------ signup, create_user -------------------------- *)
\* two requests can be in the handler at once; MaxSignups requests are made
SignupSlots == 2
MaxSignups == 3
Slots == 1..SignupSlots

SignupInputs == [email : {<<"user", 1>>, <<"user", 2>>}, workspace : {"acme", "other"}]

NoWorkspace == [id |-> 0, name |-> "", owner_id |-> 0]
NoUser == [id |-> 0, ws_id |-> 0, email |-> <<>>, full_name |-> ""]
NoOut == [tag |-> "none"]
IdleRequest == [pc |-> "idle", input |-> [email |-> <<>>, workspace |-> ""],
                ws |-> NoWorkspace, user |-> NoUser, out |-> NoOut]

\* what signup_handler answers
Created(user) == [tag |-> "Ok", status |-> 201, token |-> user.id]
EmailAlreadyExists(email) == [tag |-> "Err", error |-> "EmailAlreadyExists",
                              email |-> email, status |-> 409]
SqlxError == [tag |-> "Err", error |-> "SqlxError"]

\* faulty variant: the lookup finds nobody
find_user_by_email_FindsNobody(d, email) == None

find_user_by_email(d, email) ==
    IF \E i \in 1..Len(d.users) : d.users[i].email = email
    THEN Some(d.users[CHOOSE i \in 1..Len(d.users) : d.users[i].email = email])
    ELSE None

find_workspace_by_name(d, name) ==
    IF \E i \in 1..Len(d.workspaces) : d.workspaces[i].name = name
    THEN Some(d.workspaces[CHOOSE i \in 1..Len(d.workspaces) : d.workspaces[i].name = name])
    ELSE None

InFlight(r) == call.reqs[r].pc \notin {"idle", "done"}

InitSignup ==
    /\ NotifyIdle
    /\ db = EmptyDb
    /\ call = [op |-> "signup", reqs |-> [r \in Slots |-> IdleRequest],
               started |-> 0, overlapped |-> FALSE]

\* create_user up to its first await: find_user_by_email, and the early
\* return when the email is taken
CheckEmail(r, input) ==
    /\ call.op = "signup"
    /\ ~InFlight(r)
    /\ call.started < MaxSignups
    /\ LET found == find_user_by_email(db, input.email)
           req == [IdleRequest EXCEPT !.input = input]
       IN call' = [call EXCEPT
                     !.started = @ + 1,
                     !.overlapped = @ \/ \E q \in Slots \ {r} : InFlight(q),
                     !.reqs[r] = IF found.some
                                 THEN [req EXCEPT !.pc = "done",
                                                  !.out = EmailAlreadyExists(input.email)]
                                 ELSE [req EXCEPT !.pc = "find_workspace"]]
    /\ UNCHANGED <<db, notifyVars>>

\* find_workspace_by_name
FindWorkspace(r) ==
    /\ call.op = "signup"
    /\ call.reqs[r].pc = "find_workspace"
    /\ LET found == find_workspace_by_name(db, call.reqs[r].input.workspace)
       IN call' = [call EXCEPT
                     !.reqs[r] = IF found.some
                                 THEN [@ EXCEPT !.pc = "insert_user", !.ws = found.val]
                                 ELSE [@ EXCEPT !.pc = "create_workspace"]]
    /\ UNCHANGED <<db, notifyVars>>

\* create_workspace(name, 0); when another request created a workspace of
\* that name meanwhile the INSERT is refused or not, as the schema decides
CreateWorkspace(r) ==
    /\ call.op = "signup"
    /\ call.reqs[r].pc = "create_workspace"
    /\ \E refused \in BOOLEAN :
         /\ refused => find_workspace_by_name(db, call.reqs[r].input.workspace).some
         /\ IF refused
            THEN /\ call' = [call EXCEPT !.reqs[r] = [@ EXCEPT !.pc = "done", !.out = SqlxError]]
                 /\ db' = db
            ELSE LET ws == [id |-> Len(db.workspaces) + 1,
                            name |-> call.reqs[r].input.workspace, owner_id |-> 0]
                 IN /\ db' = [db EXCEPT !.workspaces = Append(@, ws)]
                    /\ call' = [call EXCEPT !.reqs[r] = [@ EXCEPT !.pc = "insert_user", !.ws = ws]]
    /\ UNCHANGED notifyVars

\* INSERT INTO users; when another request inserted the email meanwhile
\* the INSERT is refused or not, as the schema decides
InsertUser(r) ==
    /\ call.op = "signup"
    /\ call.reqs[r].pc = "insert_user"
    /\ \E refused \in BOOLEAN :
         /\ refused => \E i \in 1..Len(db.users) : db.users[i].email = call.reqs[r].input.email
         /\ IF refused
            THEN /\ call' = [call EXCEPT !.reqs[r] = [@ EXCEPT !.pc = "done", !.out = SqlxError]]
                 /\ db' = db
            ELSE LET user == [id |-> Len(db.users) + 1, ws_id |-> call.reqs[r].ws.id,
                              email |-> call.reqs[r].input.email, full_name |-> "user"]
                 IN /\ db' = [db EXCEPT !.users = Append(@, user)]
                    /\ call' = [call EXCEPT !.reqs[r] = [@ EXCEPT !.pc = "update_owner", !.user = user]]
    /\ UNCHANGED notifyVars

\* update_workspace_owner when the workspace read by this request had no
\* owner, then Ok(user), and the handler signs the token and answers 201
UpdateOwner(r) ==
    /\ call.op = "signup"
    /\ call.reqs[r].pc = "update_owner"
    /\ LET req == call.reqs[r]
       IN /\ db' = IF req.ws.owner_id = 0
                   THEN [db EXCEPT !.workspaces[req.ws.id].owner_id = req.user.id]
                   ELSE db
          /\ call' = [call EXCEPT !.reqs[r] = [@ EXCEPT !.pc = "done", !.out = Created(req.user)]]
    /\ UNCHANGED notifyVars

NextSignup ==
    \E r \in Slots :
        \/ \E input \in SignupInputs : CheckEmail(r, input)
        \/ FindWorkspace(r)
        \/ CreateWorkspace(r)
        \/ InsertUser(r)
        \/ UpdateOwner(r)

SpecSignup == InitSignup /\ [][NextSignup]_vars

(* ---------------------------- file_handler ----------------------------- *)
Workspaces == 2
MaxSegments == 3

\* ws_id.to_string()
WsDir(ws_id) == IF ws_id = 1 THEN "1" ELSE IF ws_id = 2 THEN "2" ELSE "0"

\* state.config.server.base_url, as the list of its components
BaseDir == <<"base">>

\* the files under the base directory, each the list of its components:
\* one uploaded by a user of each workspace
StoredFiles == {BaseDir \o <<WsDir(1), "a.png">>, BaseDir \o <<WsDir(2), "b.png">>}

\* the *path of the route: an absolute or a relative path of up to
\* MaxSegments components, ".." among them
Segments == {"a.png", "b.png", "..", "1", "2"}
RequestPaths ==
    [abs : BOOLEAN,
     segs : UNION {[1..n -> Segments] : n \in 1..MaxSegments}]

\* PathBuf::join: an absolute path replaces the base, a relative one is
\* appended as it is
Join(base, path) == IF path.abs THEN path.segs ELSE base \o path.segs

\* a directory exists when a file is stored below it
IsDir(files, dir) ==
    \E f \in files : Len(f) > Len(dir) /\ SubSeq(f, 1, Len(dir)) = dir

\* how the file system walks a path: ".." leaves a directory that exists
\* for its parent (the root is its own parent), a name enters it
RECURSIVE Walk(_, _, _)
Walk(files, at, segs) ==
    IF segs = <<>> THEN [found |-> TRUE, at |-> at]
    ELSE IF ~IsDir(files, at) THEN [found |-> FALSE, at |-> at]
    ELSE IF Head(segs) = ".."
    THEN Walk(files, IF at = <<>> THEN at ELSE SubSeq(at, 1, Len(at) - 1), Tail(segs))
    ELSE Walk(files, Append(at, Head(segs)), Tail(segs))

\* path.exists(), and the file that fs::read(path) reads
Exists(files, path) == Walk(files, <<>>, path).found /\ Walk(files, <<>>, path).at \in files
FileAt(files, path) == Walk(files, <<>>, path).at

NotFound(msg) == [tag |-> "Err", error |-> "NotFound", msg |-> msg, read |-> <<>>]

\* file_handler(Extension(user), State(state), Path((ws_id, path)))
file_handler(d, user, ws_id, path) ==
    LET base_dir == Append(BaseDir, WsDir(ws_id))
        full == Join(base_dir, path)
    IN IF user.ws_id # ws_id
       THEN NotFound("File not found or you don't have access")
       ELSE IF ~Exists(d.files, full) THEN NotFound("File not found")
       ELSE [tag |-> "Ok", read |-> FileAt(d.files, full)]

InitFile ==
    /\ NotifyIdle
    /\ db = [EmptyDb EXCEPT !.users = [i \in 1..Workspaces |->
                                         [id |-> i, ws_id |-> i, email |-> <<"user", i>>,
                                          full_name |-> "user"]],
                            !.files = StoredFiles]
    /\ call = NoCall

FileHandler(u, ws_id, path) ==
    /\ call' = [op |-> "file_handler", user |-> db.users[u], ws_id |-> ws_id,
                path |-> path, out |-> file_handler(db, db.users[u], ws_id, path)]
    /\ UNCHANGED <<db, notifyVars>>

NextFile ==
    \E u \in 1..Workspaces, ws_id \in 1..Workspaces, path \in RequestPaths :
        FileHandler(u, ws_id, path)

SpecFile == InitFile /\ [][NextFile]_vars

(* ======================= properties of the pump ======================== *)
IsChatUpdated == notif # NoNotif /\ notif.channel = "chat_updated"
                    /\ notif.payload.shape = "ChatUpdated"
IsMessageCreated == notif # NoNotif /\ notif.channel = "chat_message_created"
                       /\ notif.payload.shape = "ChatMessageCreated"
OldMembers == Range(notif.payload.old.val.members)
NewMembers == Range(notif.payload.new.val.members)

\* C1: a notification that fails to decode (unknown channel, malformed
\* payload, invalid op) is dropped and the pump keeps running: the pump task
\* never ends on a decode error.
C1_DecodeFailureKeepsPumpRunning ==
    ~(pumpSt = "stopped" /\ pumpExit.tag = "Err")

\* C2: chat_updated with both snapshots present and differing member sets:
\* the recipients are exactly the union of the old and the new members.
C2_UpdateRecipientsAreUnion ==
    (loaded.tag = "Ok" /\ IsChatUpdated
        /\ notif.payload.old.some /\ notif.payload.new.some
        /\ OldMembers # NewMembers)
    => loaded.user_ids = OldMembers \cup NewMembers

C2_Witness ==
    /\ loaded.tag = "Ok" /\ IsChatUpdated
    /\ notif.payload.op = "UPDATE"
    /\ notif.payload.old.some /\ notif.payload.new.some
    /\ notif.payload.old.val.members = <<1, 2>>
    /\ notif.payload.new.val.members = <<1, 2, 3>>
    /\ loaded.user_ids = {1, 2, 3}

\* C3: chat_updated with both snapshots present and equal member sets
\* (whatever the order and the duplicates of the lists): the recipient set
\* is empty and the pump sends the event to nobody.
C3_EqualMembersNotifyNobody ==
    (pumpSt = "publishing" /\ IsChatUpdated
        /\ notif.payload.old.some /\ notif.payload.new.some
        /\ OldMembers = NewMembers)
    => /\ loaded.user_ids = {}
       /\ todo = {}
       /\ \A u \in UserIds : nsent \notin Range(published[u])
       /\ \A c \in Conns : \A i \in 1..Len(conn[c].buf) : conn[c].buf[i].arc # nsent

C3_Witness ==
    /\ pumpSt = "publishing" /\ IsChatUpdated
    /\ notif.payload.op = "UPDATE"
    /\ notif.payload.old.some /\ notif.payload.new.some
    /\ notif.payload.old.val.members = <<1, 2>>
    /\ notif.payload.new.val.members = <<2, 1, 1>>
    /\ todo = {}
    /\ \A c \in Conns : conn[c].buf = <<>>

\* C4: chat_updated with exactly one snapshot present: the recipients are
\* that snapshot's members, the new ones of an insert, the old ones of a
\* delete.
C4_SingleSnapshotRecipients ==
    (loaded.tag = "Ok" /\ IsChatUpdated)
    => /\ (~notif.payload.old.some /\ notif.payload.new.some)
            => loaded.user_ids = NewMembers
       /\ (notif.payload.old.some /\ ~notif.payload.new.some)
            => loaded.user_ids = OldMembers

C4_Witness ==
    /\ loaded.tag = "Ok" /\ IsChatUpdated
    /\ notif.payload.op = "INSERT"
    /\ ~notif.payload.old.some /\ notif.payload.new.some
    /\ notif.payload.new.val.members = <<2, 3, 2>>
    /\ loaded.user_ids = {2, 3}

\* C5: chat_message_created: a user is a recipient exactly when its id
\* occurs in the payload's members list, wherever and however often.
C5_MessageRecipientsAreMembers ==
    (loaded.tag = "Ok" /\ IsMessageCreated)
    => /\ \A u \in 1..MaxUserId :
            u \in loaded.user_ids
                <=> \E i \in 1..Len(notif.payload.members) : notif.payload.members[i] = u
       /\ loaded.user_ids \subseteq 1..MaxUserId

C5_Witness ==
    /\ loaded.tag = "Ok" /\ IsMessageCreated
    /\ notif.payload.members = <<1, 2, 1>>
    /\ loaded.user_ids = {1, 2}

(* ===================== properties of the fan-out ======================= *)
\* the open connections of a user
LiveConns(u) == {c \in Conns : conn[c].st = "open" /\ conn[c].user = u}

\* the step in which the pump publishes the current event for user u
PublishStep(u) == pumpSt = "publishing" /\ u \in todo /\ todo' = todo \ {u}

Last(s) == s[Len(s)]
Arcs(s) == [i \in 1..Len(s) |-> s[i].arc]

\* what a connection has taken over so far, written out or still queued
Seen(c) == Arcs(wire[c] \o conn[c].buf)

\* what the pump sent on the connection's user entry since it subscribed
PublishedSince(c) ==
    SubSeq(published[conn[c].user], conn[c].since + 1, Len(published[conn[c].user]))

StrictlyIncreasing(s) == \A i, j \in 1..Len(s) : i < j => s[i] < s[j]

\* C6: one publish for a user with several live receivers reaches every one
\* of them.
C6_PublishReachesEveryReceiver ==
    [][\A u \in UserIds :
          PublishStep(u)
          => \A c \in LiveConns(u) :
                /\ conn'[c].buf # <<>>
                /\ Last(conn'[c].buf) = CurrentEvent]_vars

C6_Witness ==
    \E c, d \in Conns :
        /\ c # d
        /\ conn[c].st = "open" /\ conn[d].st = "open"
        /\ conn[c].user = conn[d].user
        /\ conn[c].buf # <<>> /\ conn[d].buf # <<>>
        /\ Last(conn[c].buf).arc = nsent
        /\ Last(conn[d].buf) = Last(conn[c].buf)

\* C7 as stated: every live connection takes over every event published for
\* its user since it subscribed, once each and in publish order.
C7_EveryEventOnceInOrder ==
    \A c \in Conns : conn[c].st = "open" => Seen(c) = PublishedSince(c)

\* C7, amended: a live connection takes over the events published for its
\* user in publish order and at most once each; it takes over all of them
\* unless it fell behind by more than the channel's capacity.
C7_InOrderAtMostOnce ==
    \A c \in Conns :
        conn[c].st = "open"
        => /\ StrictlyIncreasing(Seen(c))
           /\ Range(Seen(c)) \subseteq Range(PublishedSince(c))
           /\ conn[c].lost = 0 => Seen(c) = PublishedSince(c)

C7_Witness ==
    \E c, d \in Conns :
        /\ c # d
        /\ conn[c].st = "open" /\ conn[d].st = "open"
        /\ conn[c].user = conn[d].user
        /\ Len(wire[c]) = 2 /\ wire[d] = wire[c]
        /\ wire[c][1].arc < wire[c][2].arc
        /\ Arcs(wire[c]) = published[conn[c].user]

\* the user has no entry, or an entry without live receiver
NoAudience(u) == u \notin UserIds \/ users[u] = 0 \/ Receivers(conn, users[u]) = {}

\* C8: publishing for a user without entry or without live receiver is a
\* no-op that neither blocks nor fails the pump: the step can be taken, and
\* it leaves the pump in its loop and the registry and every connection as
\* they were.
C8_PublishToNobodyIsNoOp ==
    [][\A u \in todo :
          (pumpSt = "publishing" /\ NoAudience(u))
          => /\ ENABLED PublishOne(u)
             /\ PublishStep(u)
                => /\ pumpSt' = "publishing"
                   /\ pumpExit' = pumpExit
                   /\ users' = users /\ conn' = conn /\ wire' = wire]_vars

C8_Witness ==
    /\ pumpSt = "publishing"
    /\ \E u \in UserIds :
          /\ users[u] # 0
          /\ Receivers(conn, users[u]) = {}
          /\ nsent \in Range(published[u])
    /\ \E u \in loaded.user_ids \ todo : u \in UserIds /\ users[u] = 0

\* C9: the pump's publish step can always be taken, however full the
\* receivers' queues are; a receiver behind by more than the capacity loses
\* its oldest events (the newest published event is always kept, the queue
\* never exceeds the capacity), and a receiver that is not behind loses none.
C9_SlowReceiverNeverStallsPump ==
    /\ pumpSt = "publishing" => \A u \in todo : ENABLED PublishOne(u)
    /\ \A c \in Conns :
          conn[c].st = "open"
          => /\ Len(conn[c].buf) <= ChannelCapacity
             /\ Len(PublishedSince(c)) = Len(Seen(c)) + conn[c].lost
             /\ PublishedSince(c) # <<>>
                   => Seen(c) # <<>> /\ Last(Seen(c)) = Last(PublishedSince(c))
             /\ conn[c].lost > 0 => Len(conn[c].buf) + Len(wire[c]) >= ChannelCapacity

C9_Witness ==
    \E c, d \in Conns :
        /\ conn[c].st = "open" /\ conn[d].st = "open"
        /\ conn[c].user = conn[d].user
        /\ conn[c].lost > 0 /\ wire[c] = <<>>
        /\ Len(conn[c].buf) = ChannelCapacity
        /\ conn[d].lost = 0
        /\ Len(wire[d]) > ChannelCapacity

C11_ReleasedReceiverGetsNothing ==
    [][/\ \A c \in Conns :
             conn[c].st = "closed" => conn'[c] = conn[c] /\ wire'[c] = wire[c]
       /\ \A u \in UserIds :
             PublishStep(u)
             => /\ \A d \in LiveConns(u) :
                      /\ conn'[d].buf # <<>>
                      /\ Last(conn'[d].buf) = CurrentEvent
                /\ \A c \in Conns \ LiveConns(u) : conn'[c] = conn[c]
                /\ wire' = wire]_vars

C11_Witness ==
    \E c, d \in Conns :
        /\ conn[c].st = "closed" /\ conn[d].st = "open"
        /\ conn[c].user = conn[d].user
        /\ conn[c].chan = conn[d].chan
        /\ conn[c].until < Len(published[conn[c].user])
        /\ Last(published[conn[c].user]) = nsent
        /\ conn[d].buf # <<>> /\ Last(conn[d].buf).arc = nsent
        /\ nsent \notin Range(Arcs(wire[c]))

\* the users that have an entry in the registry, and those with an open
\* connection
RegistryEntries == {u \in UserIds : users[u] # 0}
ConnectedUsers == {u \in UserIds : LiveConns(u) # {}}

CloseStep(c) == conn[c].st = "open" /\ conn'[c].st = "closed"

\* C14: closing a connection, the last one of its user included, leaves the
\* pump where it is and every other connection as it was; a later publish
\* for a user with closed connections neither stops nor fails the pump and
\* reaches every connection of that user that is still open.
C14_CloseNeverDisturbsPumpOrOthers ==
    [][/\ \A c \in Conns :
             CloseStep(c)
             => /\ <<pumpSt, pumpExit, notif, loaded, todo, nsent>>' =
                      <<pumpSt, pumpExit, notif, loaded, todo, nsent>>
                /\ \A d \in Conns \ {c} : conn'[d] = conn[d] /\ wire'[d] = wire[d]
       /\ \A u \in UserIds :
             (PublishStep(u) /\ \E c \in Conns : conn[c].st = "closed" /\ conn[c].user = u)
             => /\ pumpSt' = "publishing"
                /\ pumpExit' = pumpExit
                /\ Len(published'[u]) = Len(published[u]) + 1
                /\ \A d \in LiveConns(u) :
                      Seen(d)' = Append(Seen(d), nsent) \/ conn'[d].lost = conn[d].lost + 1]_vars

C14_Witness ==
    \E c, d \in Conns :
        /\ conn[c].st = "closed" /\ LiveConns(conn[c].user) = {}
        /\ conn[c].until < Len(published[conn[c].user])
        /\ Last(published[conn[c].user]) = nsent
        /\ conn[d].st = "open" /\ conn[d].user # conn[c].user
        /\ conn[d].buf # <<>> /\ Last(conn[d].buf).arc = nsent
        /\ pumpSt = "listening"

(* ===================== properties of the decoder ======================= *)
\* the operation and the snapshots of a chat_updated payload fit together:
\* an insert has only the new snapshot, a delete only the old one, an
\* update both
PairsCorrectly(p) ==
    \/ p.op = "INSERT" /\ ~p.old.some /\ p.new.some
    \/ p.op = "UPDATE" /\ p.old.some /\ p.new.some
    \/ p.op = "DELETE" /\ p.old.some /\ ~p.new.some

\* C15: a chat_updated payload whose operation and snapshots do not fit
\* together is rejected with an error value: load yields neither an event
\* nor a panic for it.
C15_MispairedPayloadIsDecodeError ==
    (/\ loaded # NotLoaded
     /\ IsChatUpdated
     /\ notif.payload.op \in {"INSERT", "UPDATE", "DELETE"}
     /\ ~PairsCorrectly(notif.payload))
    => loaded.tag = "Err"

\* C16: on a channel that is neither chat_updated nor chat_message_created
\* load returns an error, with no recipient set and no event, whatever the
\* payload is.
C16_UnknownChannelIsError ==
    (loaded # NotLoaded /\ notif.channel \notin {"chat_updated", "chat_message_created"})
    => /\ loaded.tag = "Err"
       /\ DOMAIN loaded = {"tag", "msg"}

C16_Witness ==
    /\ notif.channel = "chat_deleted"
    /\ notif.payload.shape = "ChatMessageCreated"
    /\ notif.payload.members = <<1, 2>>
    /\ loaded = Err("Invalid notification type")

(* ================== properties of the pump's lifetime ================== *)
\* the task ended because the stream ended or yielded an error
StreamLost == pumpSt = "stopped" /\ pumpExit = [tag |-> "Ok"]

\* C17: when the notification stream ends or yields an error, the loss is
\* surfaced: it shows as an error in what setup_pg_listener returned to its
\* caller or in the output of the pump task.
C17_StreamLossIsSurfaced ==
    StreamLost => SetupResult.tag = "Err" \/ pumpExit.tag = "Err"

(* ================= properties of the published events ================== *)
\* the events a connection has taken over, written out or still queued
Taken(c) == wire[c] \o conn[c].buf
Entries == UNION {Range(Taken(c)) : c \in Conns}

\* C18: a notification is decoded once and yields one event value: while it
\* is published, the notification at hand is the one decoded on receipt;
\* every event any connection holds is the value built for one of the
\* notifications received, all holders of a notification's event hold the
\* same type and content, and a recipient already visited holds exactly the
\* value decoded for the notification at hand.
C18_OneEventValuePerNotification ==
    /\ pumpSt = "publishing" => loaded = load(notif.channel, notif.payload)
    /\ \A e \in Entries : e.arc \in 1..nsent
    /\ \A e, f \in Entries : e.arc = f.arc => e = f
    /\ pumpSt = "publishing"
          => \A u \in (loaded.user_ids \ todo) \cap UserIds : \A c \in LiveConns(u) :
                conn[c].since < Len(published[u])
                => Last(Taken(c)) = [arc |-> nsent, ev |-> loaded.event]

C18_Witness ==
    \E c, d \in Conns :
        /\ pumpSt = "publishing" /\ todo = {} /\ nsent = 2
        /\ conn[c].st = "open" /\ conn[d].st = "open"
        /\ conn[c].user # conn[d].user
        /\ Len(Taken(c)) = 2 /\ Taken(c)[1].arc = 1
        /\ Taken(c)[1].ev.type # Taken(c)[2].ev.type
        /\ Last(Taken(c)) = [arc |-> nsent, ev |-> loaded.event]
        /\ Taken(d) # <<>> /\ Last(Taken(d)) = Last(Taken(c))

\* where in what connection c has taken over the event of the notification
\* at hand is
CopiesOfCurrent(c) == {i \in 1..Len(Taken(c)) : Taken(c)[i].arc = nsent}

\* C19: while a chat_message_created notification is published, every live
\* connection of a listed member gets exactly one NewMessage event with the
\* payload's content, however often the member's id is listed: none before
\* the loop reaches the member, one from then on.
C19_ListedMemberGetsOneNewMessage ==
    (pumpSt = "publishing" /\ IsMessageCreated)
    => \A u \in Range(notif.payload.members) \cap UserIds : \A c \in LiveConns(u) :
          IF u \in todo THEN CopiesOfCurrent(c) = {}
          ELSE /\ Cardinality(CopiesOfCurrent(c)) = 1
               /\ \A i \in CopiesOfCurrent(c) :
                     /\ Taken(c)[i].ev.type = "NewMessage"
                     /\ Taken(c)[i].ev.message.content = notif.payload.message.content

C19_Witness ==
    /\ pumpSt = "publishing" /\ IsMessageCreated /\ todo = {}
    /\ notif.payload.members = <<1, 2, 1>>
    /\ notif.payload.message.content = "hello"
    /\ \E c, d \in Conns :
          /\ conn[c].st = "open" /\ conn[c].user = 2
          /\ conn[d].st = "open" /\ conn[d].user = 1
          /\ Len(Taken(c)) = 1 /\ Len(Taken(d)) = 1
          /\ Taken(c)[1].ev = [type |-> "NewMessage", message |-> notif.payload.message]
          /\ Taken(d) = Taken(c)

\* C20: when an update changes the membership, a user who is only in the
\* new member list gets an AddToChat event whose chat lists that user, and
\* a user who is only in the old member list gets a RemoveFromChat event.
C20_AddedAndRemovedMembersLearnIt ==
    (/\ pumpSt = "publishing" /\ IsChatUpdated
     /\ notif.payload.op = "UPDATE"
     /\ notif.payload.old.some /\ notif.payload.new.some)
    => \A u \in UserIds \ todo : \A c \in LiveConns(u) : \A i \in CopiesOfCurrent(c) :
          /\ u \in NewMembers \ OldMembers
                => /\ Taken(c)[i].ev.type = "AddToChat"
                   /\ u \in Range(Taken(c)[i].ev.chat.members)
          /\ u \in OldMembers \ NewMembers
                => Taken(c)[i].ev.type = "RemoveFromChat"

(* ================== properties of a connection's life ================== *)
\* the events the pump sent on the user's entry while the connection's
\* receiver existed: from its subscribe on, up to its close
PublishedDuring(c) ==
    SubSeq(published[conn[c].user], conn[c].since + 1,
           IF conn[c].st = "closed" THEN conn[c].until ELSE Len(published[conn[c].user]))

\* C21: there is no replay: whatever a connection has taken over was
\* published for its user while its receiver existed, never before it
\* subscribed, and a connection never holds more events than were published
\* in that time.
C21_NoReplay ==
    \A c \in Conns :
        conn[c].st # "idle"
        => /\ Range(Arcs(Taken(c))) \subseteq Range(PublishedDuring(c))
           /\ Len(Taken(c)) <= Len(PublishedDuring(c))

C21_Witness ==
    \E c, d \in Conns :
        /\ conn[c].st = "open" /\ conn[d].st = "open"
        /\ conn[c].user = conn[d].user
        /\ conn[d].since = 0 /\ conn[c].since = 1
        /\ Len(published[conn[c].user]) = 2
        /\ Arcs(Taken(d)) = published[conn[c].user]
        /\ Arcs(Taken(c)) = <<published[conn[c].user][2]>>

\* the members the payload at hand lists
CurrentMembers ==
    IF IsChatUpdated THEN MemberSet(notif.payload.new.val)
    ELSE Range(notif.payload.members)

\* C22: a chat is created, then a message is posted. A client streaming
\* from the start has taken over, or has queued, exactly the events
\* published for its user, NewChat for the first notification and NewMessage
\* for the second and none of another type; once the loop has visited a
\* listed member, the newest event of that member's connection carries the
\* payload's chat, or the payload's message, unchanged.
C22_MemberGetsNewChatThenNewMessage ==
    \A c \in Conns :
        conn[c].st = "open"
        => /\ Arcs(Taken(c)) = published[conn[c].user]
           /\ \A i \in 1..Len(Taken(c)) :
                 Taken(c)[i].ev.type = IF Taken(c)[i].arc = 1 THEN "NewChat" ELSE "NewMessage"
           /\ (pumpSt = "publishing" /\ conn[c].user \in CurrentMembers \ todo)
                 => /\ Taken(c) # <<>>
                    /\ Last(Taken(c)) =
                          [arc |-> nsent,
                           ev |-> IF nsent = 1
                                  THEN [type |-> "NewChat", chat |-> notif.payload.new.val]
                                  ELSE [type |-> "NewMessage", message |-> notif.payload.message]]

C22_Witness ==
    \E c \in Conns :
        /\ conn[c].st = "open" /\ conn[c].user = 2
        /\ conn[c].buf = <<>>
        /\ wire[c] = <<[arc |-> 1,
                        ev |-> [type |-> "NewChat",
                                chat |-> [members |-> <<1, 2>>, name |-> "test",
                                          type |-> "PrivateChannel"]]],
                       [arc |-> 2,
                        ev |-> [type |-> "NewMessage",
                                message |-> [content |-> "hello",
                                             files |-> <<"/files/1/a.png">>,
                                             sender_id |-> 1]]]>>

\* the step in which the pump takes a notification and decodes it
DecodeStep == pumpSt = "listening" /\ nsent' = nsent + 1

C24_FailedDecodeDeliversNothing ==
    [][/\ (/\ DecodeStep
           /\ \/ pumpSt' = "stopped"
              \/ notif' # NoNotif /\ load(notif'.channel, notif'.payload).tag # "Ok")
          => /\ <<users, nextChan, conn, wire, published>>' =
                   <<users, nextChan, conn, wire, published>>
             /\ pumpSt' # "publishing"
             /\ todo' = {}
       /\ pumpSt = "stopped"
          => /\ published' = published
             /\ \A c \in Conns : Range(Taken(c))' \subseteq Range(Taken(c))]_vars

C24_Witness ==
    \E c \in Conns :
        /\ pumpSt = "stopped" /\ pumpExit.tag = "Err" /\ nsent = 2
        /\ conn[c].st = "open"
        /\ published[conn[c].user] = <<1>>
        /\ Arcs(wire[c]) = <<1>> /\ conn[c].buf = <<>>

(* ==================== properties of the chat server ==================== *)
\* the request carries a token the server signed for its issuer and
\* audience that has not expired
HasValidToken(req) ==
    /\ req.authorization.scheme = "Bearer"
    /\ req.authorization.token.kind = "jwt"
    /\ req.authorization.token.key = "server"
    /\ req.authorization.token.iss = "chat_server"
    /\ req.authorization.token.aud = "chat_web"
    /\ ~req.authorization.token.expired

\* C25: the middleware answers 401 without running the inner handler when
\* the request has no bearer token, 403 without running it when the token
\* does not verify, and runs the handler, with the token's user attached to
\* the request, only for a valid token.
C25_OnlyVerifiedRequestsReachHandler ==
    (call.op = "verify_token" /\ call.pc = "done")
    => /\ call.req.authorization.scheme # "Bearer"
             => call.resp.status = 401 /\ ~call.resp.ran
       /\ (call.req.authorization.scheme = "Bearer" /\ ~HasValidToken(call.req))
             => call.resp.status = 403 /\ ~call.resp.ran
       /\ HasValidToken(call.req)
             => /\ call.resp.ran
                /\ call.resp.ext = {call.req.authorization.token.user}
       /\ call.resp.ran => HasValidToken(call.req)

C25_Witness ==
    /\ call.op = "verify_token" /\ call.pc = "done"
    /\ call.req.authorization.scheme = "Bearer"
    /\ call.req.authorization.token.kind = "jwt"
    /\ call.req.authorization.token.key = "server"
    /\ call.req.authorization.token.iss = "chat_server"
    /\ call.req.authorization.token.aud = "other"
    /\ ~call.req.authorization.token.expired
    /\ call.resp.status = 403 /\ ~call.resp.ran

\* C26: the type of a created chat follows from the input alone: without a
\* name it is Single for 2 members and Group for any other number, with a
\* name it is PublicChannel when public is set and PrivateChannel when not;
\* the chat stored is the chat returned.
C26_ChatTypeFollowsInput ==
    (call.op = "create_chat" /\ call.out.tag = "Ok")
    => /\ (~call.input.name.some /\ Len(call.input.members) = 2)
             => call.out.chat.type = "Single"
       /\ (~call.input.name.some /\ Len(call.input.members) # 2)
             => call.out.chat.type = "Group"
       /\ (call.input.name.some /\ call.input.public)
             => call.out.chat.type = "PublicChannel"
       /\ (call.input.name.some /\ ~call.input.public)
             => call.out.chat.type = "PrivateChannel"
       /\ db.chats # <<>> /\ Last(db.chats) = call.out.chat

C26_Witness ==
    /\ Len(db.chats) = 2
    /\ db.chats[1].type = "Group" /\ Len(db.chats[1].members) = 8
    /\ db.chats[2].type = "PublicChannel" /\ Len(db.chats[2].members) = 2
    /\ call.op = "create_chat" /\ call.out.tag = "Ok"
    /\ call.input.public /\ call.input.name.some

(* ----------------------------- C27 ------------------------------------- *)
\* ids of the messages of a chat below last_id, both read as the u64 values
\* the caller passed (every message when last_id is absent)
IdsBelow(d, chat_id, last_id) ==
    {i \in 1..Len(d.messages) :
        /\ d.messages[i].chat_id = chat_id
        /\ last_id.some => d.messages[i].id < last_id.val}

MessageIds(msgs) == [k \in 1..Len(msgs) |-> msgs[k].id]

\* the ids seen by paging: each page asks for the ids below the last id of
\* the page before it, until a page comes back empty
RECURSIVE Pages(_, _, _, _)
Pages(d, chat_id, last_id, limit) ==
    LET page == list_messages(d, [last_id |-> last_id, limit |-> limit], chat_id)
    IN IF page.tag # "Ok" \/ page.messages = <<>> THEN <<>>
       ELSE MessageIds(page.messages)
              \o Pages(d, chat_id, Some(Last(page.messages).id), limit)

\* C27: list_messages returns the messages of the chat with id strictly
\* below last_id (all of them when last_id is absent), newest first, at most
\* limit of them; and paging with the last returned id as the next last_id
\* visits every message of the chat exactly once, newest to oldest.
C27_ListMessagesPagesTheChat ==
    (call.op = "list_messages" /\ call.out.tag = "Ok") =>
        /\ MessageIds(call.out.messages)
             = Limit(OrderDesc(IdsBelow(db, call.chat_id, call.input.last_id)),
                     call.input.limit)
        /\ call.input.limit >= 1 =>
             Pages(db, call.chat_id, None, call.input.limit)
               = OrderDesc(IdsBelow(db, call.chat_id, None))

\* the same statement for the calls whose last_id fits an i64
C27_WithinI64 ==
    (call.op = "list_messages" /\ call.input.last_id.some
       => call.input.last_id.val <= I64Max) => C27_ListMessagesPagesTheChat

(* ----------------------------- C28 ------------------------------------- *)
\* a call of create_message has just returned
CreateMessageStep ==
    /\ call'.op = "create_message"
    /\ <<db, call>>' # <<db, call>>

\* every listed file names a file that exists under the base directory
EveryFileExists(d, files) ==
    \A k \in 1..Len(files) : files[k] \in d.files

\* C28: create_message fails and stores no message when the content is
\* empty or a listed file does not exist; otherwise it stores the message
\* and returns it.
C28_MessageStoredOnlyWhenValid ==
    [][CreateMessageStep =>
         IF call'.input.content = "" \/ ~EveryFileExists(db, call'.input.files)
         THEN call'.out.tag = "Err" /\ db' = db
         ELSE /\ call'.out.tag = "Ok"
              /\ db'.messages = Append(db.messages, call'.out.message)
              /\ call'.out.message.content = call'.input.content
              /\ call'.out.message.files = call'.input.files
              /\ call'.out.message.chat_id = call'.chat_id]_vars

\* a message whose second file is missing was refused after one with an
\* existing file was stored
C28_Witness ==
    /\ call.op = "create_message"
    /\ call.out.tag = "Err"
    /\ call.input.content # ""
    /\ call.input.files = <<UploadedFile, MissingFile>>
    /\ \E i \in 1..Len(db.messages) : db.messages[i].files = <<UploadedFile>>

(* ----------------------------- C29 ------------------------------------- *)
\* request r has just entered create_user
SignupStep(r) ==
    /\ ~InFlight(r)
    /\ call'.reqs[r] # call.reqs[r]

EmailBelongs(d, email) == \E i \in 1..Len(d.users) : d.users[i].email = email

OnePerEmail(d) ==
    \A i, j \in 1..Len(d.users) : d.users[i].email = d.users[j].email => i = j

C29_OnePerEmailAlways == OnePerEmail(db)

TaskSpawned == pumpSt \in {"listening", "publishing", "stopped"}

\* the task has taken a notification from the stream or ended
TaskActed == notif # NoNotif \/ nsent > 0 \/ loaded # NotLoaded \/ pumpExit.tag # "none"

\* C30: the pump handles notifications only after the connection and both
\* registrations succeeded; when one of the three fails setup_pg_listener
\* returns that error and no task is started.
C30_PumpStartsOnlyAfterSetup ==
    /\ (TaskSpawned \/ TaskActed) =>
          /\ listener.connected
          /\ listener.channels = Range(ListenChannels)
          /\ listener.error = "none"
          /\ SetupResult.tag = "Ok"
    /\ listener.error # "none" =>
          /\ SetupResult = Err(listener.error)
          /\ listener.error \in Range(SetupSteps)
          /\ ~TaskSpawned /\ ~TaskActed
          /\ \A u \in UserIds : published[u] = <<>>

\* the second registration failed while a client was connected
C30_Witness ==
    /\ listener.connected
    /\ listener.channels = {"chat_updated"}
    /\ SetupResult = Err("listen chat_message_created")
    /\ \E c \in Conns : conn[c].st = "open"

(* ----------------------------- C31 ------------------------------------- *)
\* the events connection c holds after a step and did not hold before it
Gained(c) == Range(conn'[c].buf) \ Range(conn[c].buf)

\* C31: an event reaches only connections of users in the recipient set
\* computed for its notification: a receiver gains an event only while that
\* notification is fanned out and its user is in the set, and a client is
\* written only what its own receiver held.
C31_OnlyRecipientsReceive ==
    [][\A c \in Conns :
          /\ Gained(c) # {} =>
                /\ pumpSt = "publishing"
                /\ loaded.tag = "Ok"
                /\ Gained(c) = {CurrentEvent}
                /\ conn[c].user \in loaded.user_ids
          /\ wire'[c] # wire[c] =>
                /\ conn[c].buf # <<>>
                /\ wire'[c] = Append(wire[c], Head(conn[c].buf))]_vars

\* the fan-out of a notification is over: a connected recipient holds the
\* event, a connected user outside the set holds nothing and got nothing
C31_Witness ==
    /\ pumpSt = "publishing" /\ todo = {}
    /\ \E c, d \in Conns :
         /\ conn[c].st = "open" /\ conn[d].st = "open"
         /\ conn[c].user \in loaded.user_ids
         /\ conn[d].user \notin loaded.user_ids
         /\ CurrentEvent \in Range(conn[c].buf)
         /\ conn[d].buf = <<>> /\ wire[d] = <<>>

(* ----------------------------- C32 ------------------------------------- *)
\* the send to u fails: u has an entry and the entry has no live receiver
SendFails(u) == u \in UserIds /\ users[u] # 0 /\ Receivers(conn, users[u]) = {}

\* recipient u leaves the list of those still to be visited
TurnTaken(u) == pumpSt = "publishing" /\ u \in todo /\ u \notin todo'

\* C32: a failed send to one recipient does not stop the fan-out of the
\* notification: the loop stays in the fan-out with every other recipient
\* still to be visited, each of their turns can be taken, and a turn puts
\* the event into every live receiver of its recipient.
C32_FailedSendDoesNotStopFanOut ==
    [][pumpSt = "publishing" =>
         \A u \in todo :
            /\ ENABLED PublishOne(u)
            /\ TurnTaken(u) =>
                  /\ pumpSt' = "publishing"
                  /\ \A c \in LiveConns(u) :
                        conn'[c].buf # <<>> /\ Last(conn'[c].buf) = CurrentEvent]_vars

\* the fan-out of a notification with two recipients is over: the send to
\* one of them failed, the connection of the other holds the event
C32_Witness ==
    /\ pumpSt = "publishing" /\ todo = {}
    /\ \E u, v \in loaded.user_ids :
         /\ u # v
         /\ SendFails(u) /\ published[u] # <<>> /\ Last(published[u]) = nsent
         /\ \A c \in Conns : conn[c].user = u => conn[c].until < Len(published[u])
         /\ \E c \in Conns :
               /\ conn[c].st = "open" /\ conn[c].user = v
               /\ conn[c].buf # <<>> /\ Last(conn[c].buf) = CurrentEvent

(* ----------------------------- C33 ------------------------------------- *)
\* the rules of a stored chat: at least 2 members, all of them distinct
\* users that exist, a name when it has more than 8 members, exactly 2
\* members when it is Single
MembersOk(d, members) ==
    /\ Len(members) >= 2
    /\ \A i, j \in 1..Len(members) : members[i] = members[j] => i = j
    /\ \A i \in 1..Len(members) : \E k \in 1..Len(d.users) : d.users[k].id = members[i]

ChatOk(d, chat) ==
    /\ MembersOk(d, chat.members)
    /\ Len(chat.members) > 8 => chat.name.some
    /\ chat.type = "Single" => Len(chat.members) = 2

\* the call asks for a chat that breaks a rule
BreaksRule(d, c) ==
    \/ ~MembersOk(d, c.input.members)
    \/ Len(c.input.members) > 8 /\ ~c.input.name.some
    \/ c.op = "update_chat_by_id" /\ c.input.type = "Single" /\ Len(c.input.members) # 2

\* a call of create_chat or update_chat_by_id has just returned
ChatCallStep ==
    /\ call'.op \in {"create_chat", "update_chat_by_id"}
    /\ <<db, call>>' # <<db, call>>

\* C33: after any create_chat and update_chat_by_id calls every stored chat
\* keeps the rules, and a call that breaks one of them returns an error
\* and leaves the stored chats unchanged.
C33_StoredChatsKeepTheRules ==
    [][/\ \A i \in 1..Len(db'.chats) : ChatOk(db', db'.chats[i])
       /\ (ChatCallStep /\ BreaksRule(db, call')) =>
             (call'.out.tag = "Err" /\ db'.chats = db.chats)]_vars

\* a chat of two was updated to a named chat of ServerUsers members, and
\* then an update to Single was refused
C33_Witness ==
    /\ call.op = "update_chat_by_id" /\ call.out.tag = "Err"
    /\ call.input.type = "Single" /\ call.input.members = UpTo(3)
    /\ AsI64(call.id) \in 1..Len(db.chats)
    /\ Len(db.chats[AsI64(call.id)].members) = ServerUsers
    /\ Len(db.chats) = MaxChats

(* ----------------------------- C34 ------------------------------------- *)
\* the users of workspace w, and the first of them to be stored
UsersOf(d, w) == {k \in 1..Len(d.users) : d.users[k].ws_id = w}
FirstUserOf(d, w) == CHOOSE k \in UsersOf(d, w) : \A j \in UsersOf(d, w) : k <= j

\* a workspace that has an owner keeps it in this step
OwnerKept ==
    \A w \in 1..Len(db.workspaces) :
        db.workspaces[w].owner_id # 0
        => db'.workspaces[w].owner_id = db.workspaces[w].owner_id

\* every workspace is owned by the first user who signed up into it
OwnersOk(d) ==
    \A w \in 1..Len(d.workspaces) :
        /\ UsersOf(d, w) # {}
        /\ d.workspaces[w].owner_id = d.users[FirstUserOf(d, w)].id

\* no signup is under way
Quiescent(c) == \A r \in Slots : c.reqs[r].pc \in {"idle", "done"}

\* C34: the first user who signs up into a workspace that does not exist
\* yet becomes the owner of the workspace created for it, later signups
\* into the workspace never change the owner, and after the signups every
\* workspace is owned by a user of that workspace.
C34_FirstUserOwnsWorkspace ==
    [][/\ OwnerKept
       /\ Quiescent(call') => OwnersOk(db')]_vars

\* the same statement for signups made one after another
C34_WhenNotOverlapping ==
    [][~call'.overlapped =>
         /\ OwnerKept
         /\ Quiescent(call') => OwnersOk(db')]_vars

(* ----------------------------- C35 ------------------------------------- *)
\* the file is stored under the directory of workspace ws_id
StoredUnder(file, ws_id) ==
    /\ Len(file) > Len(BaseDir) + 1
    /\ SubSeq(file, 1, Len(BaseDir) + 1) = Append(BaseDir, WsDir(ws_id))

\* C35: file_handler never returns the content of a file stored under
\* another workspace than the user's: when the user's ws_id differs from
\* the ws_id of the path the result is NotFound and no file is read, and a
\* file that is returned is stored under the user's workspace, for every
\* path.
C35_NoFileOfAnotherWorkspace ==
    call.op = "file_handler" =>
        /\ call.user.ws_id # call.ws_id =>
              (call.out.tag = "Err" /\ call.out.error = "NotFound" /\ call.out.read = <<>>)
        /\ call.out.tag = "Ok" => StoredUnder(call.out.read, call.user.ws_id)

\* the part about a ws_id that differs from the user's
C35_OtherWorkspaceIsNotFound ==
    (call.op = "file_handler" /\ call.user.ws_id # call.ws_id) =>
        (call.out.tag = "Err" /\ call.out.error = "NotFound" /\ call.out.read = <<>>)

====
